---- MODULE Spec2Model ----
(***************************************************************************)
(* Model of src/calculate.py: the day-of-year baseline / deviation script. *)
(* The script is straight-line code; every numbered step of the script is  *)
(* one action, pc is the position of the interpreter.  Floating point      *)
(* values are modelled as exact rationals (num/den, den > 0) and the       *)
(* not-a-number value as 0/0.                                              *)
(* Every row of a consumption file carries a volume; temp_df holds the     *)
(* provider's rows for the dates of the two files only (no other row can   *)
(* join).  Plots and prints change no state and are left out.              *)
(***************************************************************************)
EXTENDS Integers, Sequences, FiniteSets, TLC

VARIABLES pc, error, fetch,
          elec_df, gas_df,
          start_date, end_date,
          temp_df,
          merged_elec, merged_gas,
          correlation_elec, correlation_gas,
          daily_elec, daily_gas,
          daily_elec_pivot, daily_gas_pivot,
          mean_elec_per_day, mean_gas_per_day,
          dev_elec_daily, dev_gas_daily,
          daily_temp, daily_temp_pivot,
          std_temp_day, temp_dev_daily,
          merged_dev_daily, high_usage_warm_days

vars == <<pc, error, fetch, elec_df, gas_df, start_date, end_date, temp_df,
          merged_elec, merged_gas, correlation_elec, correlation_gas,
          daily_elec, daily_gas, daily_elec_pivot, daily_gas_pivot,
          mean_elec_per_day, mean_gas_per_day, dev_elec_daily, dev_gas_daily,
          daily_temp, daily_temp_pivot, std_temp_day, temp_dev_daily,
          merged_dev_daily, high_usage_warm_days>>

-----------------------------------------------------------------------------
(* Bounds of the model *)

\* rows of a consumption file of dates around the provider's coverage
MaxRangeRows == 2
\* rows of a consumption file with several readings a day
MaxDupRows == 3
\* temperatures the provider reports are 0 .. MaxTemp
MaxTemp == 1

-----------------------------------------------------------------------------
(* Floating point numbers: exact rationals, NaN is 0/0 *)

Abs(i) == IF i < 0 THEN -i ELSE i

RECURSIVE GCD(_, _)
GCD(a, b) == IF b = 0 THEN a ELSE GCD(b, a % b)

NaN == [num |-> 0, den |-> 0]
IsNaN(x) == x.den = 0

Norm(n, d) ==
    LET g == GCD(Abs(n), d)
    IN  [num |-> n \div g, den |-> d \div g]

R(i) == [num |-> i, den |-> 1]

RAdd(a, b) ==
    IF IsNaN(a) \/ IsNaN(b) THEN NaN
    ELSE Norm(a.num * b.den + b.num * a.den, a.den * b.den)

RSub(a, b) ==
    IF IsNaN(a) \/ IsNaN(b) THEN NaN
    ELSE Norm(a.num * b.den - b.num * a.den, a.den * b.den)

RMul(a, b) ==
    IF IsNaN(a) \/ IsNaN(b) THEN NaN
    ELSE Norm(a.num * b.num, a.den * b.den)

\* a / n for a count n; 0/0 and x/0 are NaN for the finite inputs used here
RDivInt(a, n) ==
    IF IsNaN(a) \/ n = 0 THEN NaN ELSE Norm(a.num, a.den * n)

\* comparisons with NaN are False
RGt(a, b) ==
    /\ ~IsNaN(a)
    /\ ~IsNaN(b)
    /\ a.num * b.den > b.num * a.den

-----------------------------------------------------------------------------
(* Calendar dates: pandas Timestamp, .dt.year, .dt.dayofyear *)

Date(y, m, d) == [y |-> y, m |-> m, d |-> d]
NaT == [y |-> 0, m |-> 0, d |-> 0]
IsNaT(t) == t.y = 0

IsLeap(y) == (y % 4 = 0 /\ y % 100 # 0) \/ y % 400 = 0

DaysInMonth(y, m) ==
    IF m = 2 THEN (IF IsLeap(y) THEN 29 ELSE 28)
    ELSE IF m \in {4, 6, 9, 11} THEN 30 ELSE 31

RECURSIVE DaysBefore(_, _)
DaysBefore(y, m) == IF m = 1 THEN 0 ELSE DaysBefore(y, m - 1) + DaysInMonth(y, m - 1)

Year(t) == t.y
DayOfYear(t) == DaysBefore(t.y, t.m) + t.d

Ord(t) == t.y * 10000 + t.m * 100 + t.d
\* Timestamp comparison: every comparison with NaT is False
DateLt(a, b) == ~IsNaT(a) /\ ~IsNaT(b) /\ Ord(a) < Ord(b)
DateGt(a, b) == DateLt(b, a)

-----------------------------------------------------------------------------
(* pandas operations used by the script, on frames that are sequences of    *)
(* rows (records) and on pivots [index, columns, cell]                       *)

RECURSIVE SortedSeq(_)
\* the elements of a finite set of integers, ascending
SortedSeq(S) ==
    IF S = {} THEN << >>
    ELSE LET m == CHOOSE x \in S : \A z \in S : x <= z
         IN  <<m>> \o SortedSeq(S \ {m})

RECURSIVE SeqSum(_)
\* Series.sum(): left to right, NaN skipped, 0 for nothing to add
SeqSum(s) ==
    IF s = << >> THEN R(0)
    ELSE LET rest == SeqSum(SubSeq(s, 1, Len(s) - 1))
             x    == s[Len(s)]
         IN  IF IsNaN(x) THEN rest ELSE RAdd(rest, x)

NotNaN(x) == ~IsNaN(x)

\* faulty variant: the mean divides by the number of all entries, NaN ones included
SeqMean_CountAll(s) ==
    LET valid == SelectSeq(s, NotNaN)
    IN  IF valid = << >> THEN NaN ELSE RDivInt(SeqSum(valid), Len(s))

\* Series.mean(): sum of the non-NaN values over their count, NaN for none
SeqMean(s) ==
    LET valid == SelectSeq(s, NotNaN)
    IN  RDivInt(SeqSum(valid), Len(valid))

Column(rows, col) == [i \in 1..Len(rows) |-> rows[i][col]]

\* Series.min() / Series.max() of the Date column: NaT for an empty frame
DateMin(df) ==
    IF df = << >> THEN NaT
    ELSE df[CHOOSE i \in 1..Len(df) :
              \A j \in 1..Len(df) : Ord(df[i].Date) <= Ord(df[j].Date)].Date

DateMax(df) ==
    IF df = << >> THEN NaT
    ELSE df[CHOOSE i \in 1..Len(df) :
              \A j \in 1..Len(df) : Ord(df[i].Date) >= Ord(df[j].Date)].Date

\* the builtin min(a, b) / max(a, b): the first argument unless the second
\* compares strictly below / above it
PyMin(a, b) == IF DateLt(b, a) THEN b ELSE a
PyMax(a, b) == IF DateGt(b, a) THEN b ELSE a

\* the temperature of a date in temp_df (dates are unique in temp_df)
TempOf(tdf, date) ==
    IF \E r \in tdf : r.Date = date
    THEN (CHOOSE r \in tdf : r.Date = date).Avg_Temp_C
    ELSE NaN

\* pd.merge(df, temp_df, on='Date', how='left'): every row of df, in order
MergeLeft(df, tdf) ==
    [i \in 1..Len(df) |->
        [Date |-> df[i].Date, Usage |-> df[i].Usage,
         Avg_Temp_C |-> TempOf(tdf, df[i].Date)]]

\* Series.corr (Pearson), over the rows where both values are present.
\* NaN for fewer than two such rows or a constant column; otherwise the
\* value r * |r| (the exact rational that orders like r: r has a square root)
Corr(rows) ==
    LET valid == SelectSeq(rows, LAMBDA r : ~IsNaN(r.Usage) /\ ~IsNaN(r.Avg_Temp_C))
        n     == Len(valid)
        u     == Column(valid, "Usage")
        t     == Column(valid, "Avg_Temp_C")
        uu    == [i \in 1..n |-> RMul(u[i], u[i])]
        tt    == [i \in 1..n |-> RMul(t[i], t[i])]
        ut    == [i \in 1..n |-> RMul(u[i], t[i])]
        cov   == RSub(RMul(R(n), SeqSum(ut)), RMul(SeqSum(u), SeqSum(t)))
        varU  == RSub(RMul(R(n), SeqSum(uu)), RMul(SeqSum(u), SeqSum(u)))
        varT  == RSub(RMul(R(n), SeqSum(tt)), RMul(SeqSum(t), SeqSum(t)))
        den   == RMul(varU, varT)
    IN  IF n < 2 \/ varU.num = 0 \/ varT.num = 0 THEN NaN
        ELSE Norm(cov.num * Abs(cov.num) * den.den, cov.den * cov.den * den.num)

\* df['Year'] = df['Date'].dt.year ; df['DayOfYear'] = df['Date'].dt.dayofyear
AddYearDoy(rows) ==
    [i \in 1..Len(rows) |->
        [Date |-> rows[i].Date, Usage |-> rows[i].Usage,
         Avg_Temp_C |-> rows[i].Avg_Temp_C,
         Year |-> Year(rows[i].Date), DayOfYear |-> DayOfYear(rows[i].Date)]]

GroupKeys(rows) == {<<rows[i].Year, rows[i].DayOfYear>> : i \in 1..Len(rows)}

GroupRows(rows, k) ==
    SelectSeq(rows, LAMBDA r : r.Year = k[1] /\ r.DayOfYear = k[2])

\* faulty variant: the rows of a day are averaged, not summed
GroupBySum_Mean(rows, col) ==
    [k \in GroupKeys(rows) |->
        RDivInt(SeqSum(Column(GroupRows(rows, k), col)), Len(GroupRows(rows, k)))]

\* groupby(['Year','DayOfYear'])[col].sum()
GroupBySum(rows, col) ==
    [k \in GroupKeys(rows) |-> SeqSum(Column(GroupRows(rows, k), col))]

\* groupby(['Year','DayOfYear'])[col].mean()
GroupByMean(rows, col) ==
    [k \in GroupKeys(rows) |-> SeqMean(Column(GroupRows(rows, k), col))]

\* daily.pivot(index='DayOfYear', columns='Year', values=...): a cell for every
\* (day, year) of index x columns, NaN where the year has no row for the day
Pivot(daily) ==
    LET index   == {k[2] : k \in DOMAIN daily}
        columns == {k[1] : k \in DOMAIN daily}
    IN  [index |-> index, columns |-> columns,
         cell |-> [c \in index \X columns |->
                     IF <<c[2], c[1]>> \in DOMAIN daily
                     THEN daily[<<c[2], c[1]>>] ELSE NaN]]

EmptyPivot == [index |-> {}, columns |-> {}, cell |-> << >>]

\* the row of day d, in column (year) order
PivotRow(pv, d) ==
    LET ys == SortedSeq(pv.columns)
    IN  [i \in 1..Len(ys) |-> pv.cell[<<d, ys[i]>>]]

\* faulty variant: the standard of a day is the sum of its row, never divided
MeanAxis1_Sum(pv) ==
    [d \in pv.index |->
        IF SelectSeq(PivotRow(pv, d), NotNaN) = << >> THEN NaN
        ELSE SeqSum(PivotRow(pv, d))]

\* pivot.mean(axis=1): per day, the mean of the non-NaN cells of its row
MeanAxis1(pv) == [d \in pv.index |-> SeqMean(PivotRow(pv, d))]

\* faulty variant: the deviations are filled with 0 where there is no value
ApplySub_FillZero(pv, mean) ==
    [index |-> pv.index, columns |-> pv.columns,
     cell |-> [c \in DOMAIN pv.cell |->
                 IF IsNaN(RSub(pv.cell[c], mean[c[1]])) THEN R(0)
                 ELSE RSub(pv.cell[c], mean[c[1]])]]

\* pivot.apply(lambda col: col - mean): every column minus the per-day series
ApplySub(pv, mean) ==
    [index |-> pv.index, columns |-> pv.columns,
     cell |-> [c \in DOMAIN pv.cell |-> RSub(pv.cell[c], mean[c[1]])]]

RECURSIVE Concat(_)
Concat(ss) == IF ss = << >> THEN << >> ELSE Head(ss) \o Concat(Tail(ss))

\* faulty variant: the stacked rows run year by year
Stack_YearMajor(pv, name) ==
    LET ds == SortedSeq(pv.index)
        ys == SortedSeq(pv.columns)
        rowOf(d, y) ==
            IF IsNaN(pv.cell[<<d, y>>]) THEN << >>
            ELSE << [DayOfYear |-> d, Year |-> y] @@ (name :> pv.cell[<<d, y>>]) >>
    IN  Concat([j \in 1..Len(ys) |->
                  Concat([i \in 1..Len(ds) |-> rowOf(ds[i], ys[j])])])

\* pivot.stack().reset_index(): one row per non-NaN cell, days ascending and
\* within a day years ascending; columns renamed to DayOfYear, Year, name
Stack(pv, name) ==
    LET ds == SortedSeq(pv.index)
        ys == SortedSeq(pv.columns)
        rowOf(d, y) ==
            IF IsNaN(pv.cell[<<d, y>>]) THEN << >>
            ELSE << [DayOfYear |-> d, Year |-> y] @@ (name :> pv.cell[<<d, y>>]) >>
    IN  Concat([i \in 1..Len(ds) |->
                  Concat([j \in 1..Len(ys) |-> rowOf(ds[i], ys[j])])])

\* pd.merge(left, right, on=['DayOfYear','Year'], how='inner'): in the order of
\* the left rows, one row per matching right row
MergeInner(left, right) ==
    LET match(l) ==
            LET rs == SelectSeq(right,
                        LAMBDA r : r.DayOfYear = l.DayOfYear /\ r.Year = l.Year)
            IN  [j \in 1..Len(rs) |->
                   [DayOfYear |-> l.DayOfYear, Year |-> l.Year,
                    Gas_Dev |-> l.Gas_Dev, Temp_Dev |-> rs[j].Temp_Dev]]
    IN  Concat([i \in 1..Len(left) |-> match(left[i])])

HIGH_USAGE_THRESHOLD == R(2)

\* faulty variant: a deviation equal to the usage threshold passes
HighUsageWarm_AtLeast(merged) ==
    SelectSeq(merged,
        LAMBDA r : ~RGt(HIGH_USAGE_THRESHOLD, r.Gas_Dev) /\ ~IsNaN(r.Gas_Dev)
                   /\ RGt(r.Temp_Dev, R(0)))

\* merged[(merged['Gas_Dev'] > HIGH_USAGE_THRESHOLD) & (merged['Temp_Dev'] > 0)]
HighUsageWarm(merged) ==
    SelectSeq(merged,
        LAMBDA r : RGt(r.Gas_Dev, HIGH_USAGE_THRESHOLD) /\ RGt(r.Temp_Dev, R(0)))

-----------------------------------------------------------------------------
(* Inputs: the two consumption files after loading and sorting (lines 38-58), *)
(* the clock, and what the temperature provider answers                       *)

\* 2020 and 2024 are leap years (Dec 31 is day 366), 2023 is not (day 365)
CoreDates == {Date(2020, 12, 31), Date(2023, 12, 31),
              Date(2024, 12, 30), Date(2024, 12, 31)}
\* day 366 of two leap years and day 365 of the year between them
SparseDates == {Date(2020, 12, 31), Date(2023, 12, 31), Date(2024, 12, 31)}
\* two dates with the same day-of-year 365 in different years
DupDates == {Date(2023, 12, 31), Date(2024, 12, 30)}
\* one date before the provider's coverage, one inside, one after today
RangeDates == {Date(1978, 12, 31), Date(2024, 12, 31), Date(2025, 12, 31)}

\* datetime.date.today()
today_date == Date(2025, 6, 15)
\* ERA5 data starts at 1979-01-01
min_coverage == Date(1979, 1, 1)

\* daily volumes of the gas meter
Usages == {1, 6}

Rows(dates, usages) == {[Date |-> d, Usage |-> R(u)] : d \in dates, u \in usages}

\* df.sort_values(by='Date'): the rows in date order; rows of one date may be
\* in either order (the sort is not stable)
IsSorted(df) == \A i \in 1..(Len(df) - 1) : Ord(df[i].Date) <= Ord(df[i + 1].Date)
UniqueDates(df) == \A i \in 1..(Len(df) - 1) : Ord(df[i].Date) < Ord(df[i + 1].Date)

\* the sorted files of at most n rows
Frames(rows, n) == {df \in UNION {[1..k -> rows] : k \in 0..n} : IsSorted(df)}

\* the same file with readings that rise by one from row to row
Rising(df) == [i \in 1..Len(df) |-> [Date |-> df[i].Date, Usage |-> R(i)]]

\* the input files: electricity readings rise, gas readings are any of Usages
ElecFrames(dates, n) == {Rising(df) : df \in Frames(Rows(dates, {0}), n)}
GasFrames(dates, n) == Frames(Rows(dates, Usages), n)

\* what the provider can answer for the rows that can join: a row for every
\* date of the files inside the requested range, its mean temperature a
\* number or null
FileDates == {elec_df[i].Date : i \in 1..Len(elec_df)}
                \cup {gas_df[i].Date : i \in 1..Len(gas_df)}
InRange(t) == ~DateLt(t, start_date) /\ ~DateGt(t, end_date)
Temps == {NaN} \cup {R(i) : i \in 0..MaxTemp}
Answers ==
    LET ds == {t \in FileDates : InRange(t)}
    IN  {{[Date |-> t, Avg_Temp_C |-> f[t]] : t \in ds} : f \in [ds -> Temps]}

NoFrame == << >>
NoSeries == << >>

Blank ==
    /\ pc = "range"
    /\ error = "none"
    /\ fetch = "none"
    /\ start_date = NaT
    /\ end_date = NaT
    /\ temp_df = {}
    /\ merged_elec = NoFrame
    /\ merged_gas = NoFrame
    /\ correlation_elec = NaN
    /\ correlation_gas = NaN
    /\ daily_elec = NoSeries
    /\ daily_gas = NoSeries
    /\ daily_elec_pivot = EmptyPivot
    /\ daily_gas_pivot = EmptyPivot
    /\ mean_elec_per_day = NoSeries
    /\ mean_gas_per_day = NoSeries
    /\ dev_elec_daily = EmptyPivot
    /\ dev_gas_daily = EmptyPivot
    /\ daily_temp = NoSeries
    /\ daily_temp_pivot = EmptyPivot
    /\ std_temp_day = NoSeries
    /\ temp_dev_daily = EmptyPivot
    /\ merged_dev_daily = NoFrame
    /\ high_usage_warm_days = NoFrame

Init ==
    /\ \/ \* daily totals with days missing
          /\ elec_df \in ElecFrames(SparseDates, Cardinality(SparseDates))
          /\ gas_df \in GasFrames(SparseDates, Cardinality(SparseDates))
          /\ UniqueDates(elec_df)
          /\ UniqueDates(gas_df)
       \/ \* daily totals of every date
          /\ elec_df \in ElecFrames(CoreDates, Cardinality(CoreDates))
          /\ gas_df \in GasFrames(CoreDates, Cardinality(CoreDates))
          /\ UniqueDates(elec_df) /\ Len(elec_df) = Cardinality(CoreDates)
          /\ UniqueDates(gas_df) /\ Len(gas_df) = Cardinality(CoreDates)
       \/ \* several readings a day
          /\ elec_df \in ElecFrames(DupDates, MaxDupRows)
          /\ gas_df \in GasFrames(DupDates, MaxDupRows)
       \/ \* dates around the provider's coverage
          /\ elec_df \in ElecFrames(RangeDates, MaxRangeRows)
          /\ gas_df \in GasFrames(RangeDates, MaxRangeRows)
    /\ Blank

-----------------------------------------------------------------------------
(* The script, step by step *)

\* lines 66-92: the date range of the request; strftime of NaT raises
DateRange ==
    /\ pc = "range"
    /\ LET earliest_elec == DateMin(elec_df)
           latest_elec   == DateMax(elec_df)
           earl_gas      == DateMin(gas_df)
           late_gas      == DateMax(gas_df)
           start0        == PyMin(earliest_elec, earl_gas)
           end0          == PyMax(latest_elec, late_gas)
           end1          == IF DateGt(end0, today_date) THEN today_date ELSE end0
           start1        == IF DateLt(start0, min_coverage) THEN min_coverage ELSE start0
       IN  /\ start_date' = start1
           /\ end_date' = end1
           /\ IF IsNaT(start1) \/ IsNaT(end1)
              THEN pc' = "aborted" /\ error' = "ValueError"
              ELSE pc' = "fetch" /\ error' = error
    /\ UNCHANGED <<fetch, elec_df, gas_df, temp_df, merged_elec, merged_gas,
                   correlation_elec, correlation_gas, daily_elec, daily_gas,
                   daily_elec_pivot, daily_gas_pivot, mean_elec_per_day,
                   mean_gas_per_day, dev_elec_daily, dev_gas_daily, daily_temp,
                   daily_temp_pivot, std_temp_day, temp_dev_daily,
                   merged_dev_daily, high_usage_warm_days>>

\* lines 111-139 then 141-164: the provider's answer (rows, arrays of unequal
\* length, or a failed request: the last two leave temp_df without rows), the
\* two left merges and the two correlations
FetchAndMerge(outcome, rows) ==
    /\ pc = "fetch"
    /\ fetch' = outcome
    /\ temp_df' = rows
    /\ merged_elec' = MergeLeft(elec_df, rows)
    /\ merged_gas' = MergeLeft(gas_df, rows)
    /\ correlation_elec' = Corr(MergeLeft(elec_df, rows))
    /\ correlation_gas' = Corr(MergeLeft(gas_df, rows))
    /\ pc' = "aggregate"
    /\ UNCHANGED <<error, elec_df, gas_df, start_date, end_date,
                   daily_elec, daily_gas,
                   daily_elec_pivot, daily_gas_pivot, mean_elec_per_day,
                   mean_gas_per_day, dev_elec_daily, dev_gas_daily, daily_temp,
                   daily_temp_pivot, std_temp_day, temp_dev_daily,
                   merged_dev_daily, high_usage_warm_days>>

\* line 123 holds: the daily arrays have one length
FetchOk == \E rows \in Answers : FetchAndMerge("ok", rows)
\* lines 133-135: "[WARNING] Mismatch in daily arrays."
FetchMismatch == FetchAndMerge("mismatch", {})
\* lines 137-139: "[ERROR] Failed to fetch data from Open-Meteo"
FetchFailed == FetchAndMerge("failed", {})

\* lines 172-184: Year and DayOfYear columns, the daily sums of usage
Aggregate ==
    /\ pc = "aggregate"
    /\ merged_elec' = AddYearDoy(merged_elec)
    /\ merged_gas' = AddYearDoy(merged_gas)
    /\ daily_elec' = GroupBySum(AddYearDoy(merged_elec), "Usage")
    /\ daily_gas' = GroupBySum(AddYearDoy(merged_gas), "Usage")
    /\ pc' = "test"
    /\ UNCHANGED <<error, fetch, elec_df, gas_df, start_date, end_date, temp_df,
                   correlation_elec, correlation_gas,
                   daily_elec_pivot, daily_gas_pivot, mean_elec_per_day,
                   mean_gas_per_day, dev_elec_daily, dev_gas_daily, daily_temp,
                   daily_temp_pivot, std_temp_day, temp_dev_daily,
                   merged_dev_daily, high_usage_warm_days>>

Stop(err) ==
    /\ pc' = "aborted"
    /\ error' = err
    /\ UNCHANGED <<fetch, elec_df, gas_df, start_date, end_date, temp_df,
                   merged_elec, merged_gas, correlation_elec, correlation_gas,
                   daily_elec, daily_gas,
                   daily_elec_pivot, daily_gas_pivot, mean_elec_per_day,
                   mean_gas_per_day, dev_elec_daily, dev_gas_daily, daily_temp,
                   daily_temp_pivot, std_temp_day, temp_dev_daily,
                   merged_dev_daily, high_usage_warm_days>>

\* lines 200-201: assert not elec_df.empty / assert not gas_df.empty
TestEmptyFails ==
    /\ pc = "test"
    /\ elec_df = << >> \/ gas_df = << >>
    /\ Stop("AssertionError: DataFrame is empty")

\* lines 205-206: assert correlation == correlation, False for NaN alone
TestCorrelationFails ==
    /\ pc = "test"
    /\ elec_df # << >> /\ gas_df # << >>
    /\ IsNaN(correlation_elec) \/ IsNaN(correlation_gas)
    /\ Stop("AssertionError: correlation is NaN")

\* faulty variant: the test cases are skipped
TestsPass_Skipped ==
    /\ pc = "test"
    /\ pc' = "baseline"
    /\ UNCHANGED <<error, fetch, elec_df, gas_df, start_date, end_date, temp_df,
                   merged_elec, merged_gas, correlation_elec, correlation_gas,
                   daily_elec, daily_gas,
                   daily_elec_pivot, daily_gas_pivot, mean_elec_per_day,
                   mean_gas_per_day, dev_elec_daily, dev_gas_daily, daily_temp,
                   daily_temp_pivot, std_temp_day, temp_dev_daily,
                   merged_dev_daily, high_usage_warm_days>>

\* lines 198-207 with every assertion true
TestsPass ==
    /\ pc = "test"
    /\ elec_df # << >> /\ gas_df # << >>
    /\ ~IsNaN(correlation_elec) /\ ~IsNaN(correlation_gas)
    /\ pc' = "baseline"
    /\ UNCHANGED <<error, fetch, elec_df, gas_df, start_date, end_date, temp_df,
                   merged_elec, merged_gas, correlation_elec, correlation_gas,
                   daily_elec, daily_gas,
                   daily_elec_pivot, daily_gas_pivot, mean_elec_per_day,
                   mean_gas_per_day, dev_elec_daily, dev_gas_daily, daily_temp,
                   daily_temp_pivot, std_temp_day, temp_dev_daily,
                   merged_dev_daily, high_usage_warm_days>>

\* lines 217-253: the pivots, the standard of every day and the deviations
BaselineAndDeviation ==
    /\ pc = "baseline"
    /\ daily_elec_pivot' = Pivot(daily_elec)
    /\ daily_gas_pivot' = Pivot(daily_gas)
    /\ mean_elec_per_day' = MeanAxis1(Pivot(daily_elec))
    /\ mean_gas_per_day' = MeanAxis1(Pivot(daily_gas))
    /\ dev_elec_daily' = ApplySub(Pivot(daily_elec), MeanAxis1(Pivot(daily_elec)))
    /\ dev_gas_daily' = ApplySub(Pivot(daily_gas), MeanAxis1(Pivot(daily_gas)))
    /\ pc' = "temperature"
    /\ UNCHANGED <<error, fetch, elec_df, gas_df, start_date, end_date, temp_df,
                   merged_elec, merged_gas, correlation_elec, correlation_gas,
                   daily_elec, daily_gas, daily_temp,
                   daily_temp_pivot, std_temp_day, temp_dev_daily,
                   merged_dev_daily, high_usage_warm_days>>

\* faulty variant: the daily temperature is taken from the gas rows
DailyTemp_OfGas == GroupByMean(merged_gas, "Avg_Temp_C")

\* line 262: merged_elec.groupby(['Year','DayOfYear'])['Avg_Temp_C'].mean()
DailyTemp == GroupByMean(merged_elec, "Avg_Temp_C")

\* lines 262-279: the daily temperature of the electricity rows, its standard
\* and its deviations
Temperature ==
    /\ pc = "temperature"
    /\ daily_temp' = DailyTemp
    /\ daily_temp_pivot' = Pivot(DailyTemp)
    /\ std_temp_day' = MeanAxis1(Pivot(DailyTemp))
    /\ temp_dev_daily' = ApplySub(Pivot(DailyTemp), MeanAxis1(Pivot(DailyTemp)))
    /\ pc' = "detect"
    /\ UNCHANGED <<error, fetch, elec_df, gas_df, start_date, end_date, temp_df,
                   merged_elec, merged_gas, correlation_elec, correlation_gas,
                   daily_elec, daily_gas,
                   daily_elec_pivot, daily_gas_pivot, mean_elec_per_day,
                   mean_gas_per_day, dev_elec_daily, dev_gas_daily,
                   merged_dev_daily, high_usage_warm_days>>

\* lines 282-304: both deviation tables stacked, joined on (DayOfYear, Year)
\* and filtered by the two thresholds
Detect ==
    /\ pc = "detect"
    /\ merged_dev_daily' =
           MergeInner(Stack(dev_gas_daily, "Gas_Dev"), Stack(temp_dev_daily, "Temp_Dev"))
    /\ high_usage_warm_days' =
           HighUsageWarm(MergeInner(Stack(dev_gas_daily, "Gas_Dev"),
                                    Stack(temp_dev_daily, "Temp_Dev")))
    /\ pc' = "done"
    /\ UNCHANGED <<error, fetch, elec_df, gas_df, start_date, end_date, temp_df,
                   merged_elec, merged_gas, correlation_elec, correlation_gas,
                   daily_elec, daily_gas,
                   daily_elec_pivot, daily_gas_pivot, mean_elec_per_day,
                   mean_gas_per_day, dev_elec_daily, dev_gas_daily, daily_temp,
                   daily_temp_pivot, std_temp_day, temp_dev_daily>>

Next ==
    \/ DateRange
    \/ FetchOk
    \/ FetchMismatch
    \/ FetchFailed
    \/ Aggregate
    \/ TestEmptyFails
    \/ TestCorrelationFails
    \/ TestsPass
    \/ BaselineAndDeviation
    \/ Temperature
    \/ Detect

Spec == Init /\ [][Next]_vars

-----------------------------------------------------------------------------
(* Properties *)

Computed == {"temperature", "detect", "done"}
TempComputed == {"detect", "done"}

\* the years with a populated cell for day d
PopYears(pv, d) == {y \in pv.columns : ~IsNaN(pv.cell[<<d, y>>])}

RECURSIVE YearSum(_, _, _)
\* the sum of the cells of day d over a set of years, in no particular order
YearSum(pv, d, ys) ==
    IF ys = {} THEN R(0)
    ELSE LET y == CHOOSE y \in ys : TRUE
         IN  RAdd(pv.cell[<<d, y>>], YearSum(pv, d, ys \ {y}))

\* x is the n-th part of total
IsNthPart(x, total, n) ==
    /\ ~IsNaN(x)
    /\ x.num * total.den * n = total.num * x.den

BaselineOk(pv, mean) ==
    /\ DOMAIN mean = pv.index
    /\ \A d \in pv.index :
          LET ys == PopYears(pv, d)
          IN  /\ IsNaN(mean[d]) <=> ys = {}
              /\ ys # {} => IsNthPart(mean[d], YearSum(pv, d, ys), Cardinality(ys))
              /\ d = 366 => \A y \in ys : IsLeap(y)

\* C1: for every series and every day of the year, the standard of the day is
\* the arithmetic mean of the cells of the day over exactly the years whose
\* cell is populated; it is defined iff some year has a populated cell, and
\* day 366 is averaged over leap years only.
C1_BaselineIsMeanOfPopulatedYears ==
    /\ pc \in Computed =>
          /\ BaselineOk(daily_elec_pivot, mean_elec_per_day)
          /\ BaselineOk(daily_gas_pivot, mean_gas_per_day)
    /\ pc \in TempComputed => BaselineOk(daily_temp_pivot, std_temp_day)

\* a day 366 averaged over two leap years out of three years of gas data, and
\* a day of the temperature matrix without any populated year
C1_Witness ==
    /\ pc = "done"
    /\ 366 \in daily_gas_pivot.index
    /\ Cardinality(PopYears(daily_gas_pivot, 366)) = 2
    /\ Cardinality(daily_gas_pivot.columns) = 3
    /\ \E d \in daily_temp_pivot.index : PopYears(daily_temp_pivot, d) = {}

\* dev is value - mean, compared without the model's subtraction
IsDifference(dev, value, mean) ==
    /\ ~IsNaN(dev) /\ ~IsNaN(value) /\ ~IsNaN(mean)
    /\ dev.num * value.den * mean.den
          = (value.num * mean.den - mean.num * value.den) * dev.den

DeviationOk(pv, mean, dev) ==
    /\ dev.index = pv.index
    /\ dev.columns = pv.columns
    /\ DOMAIN dev.cell = DOMAIN pv.cell
    /\ \A c \in DOMAIN pv.cell :
          /\ IsNaN(dev.cell[c]) <=> IsNaN(pv.cell[c])
          /\ ~IsNaN(pv.cell[c]) => IsDifference(dev.cell[c], pv.cell[c], mean[c[1]])

\* C2: for every series the deviation matrix has exactly the populated cells of
\* the aggregated day-year matrix, and every populated cell is the aggregated
\* value minus the standard of its day; no cell is added, dropped or set to 0.
C2_DeviationSameCells ==
    /\ pc \in Computed =>
          /\ DeviationOk(daily_elec_pivot, mean_elec_per_day, dev_elec_daily)
          /\ DeviationOk(daily_gas_pivot, mean_gas_per_day, dev_gas_daily)
    /\ pc \in TempComputed => DeviationOk(daily_temp_pivot, std_temp_day, temp_dev_daily)

\* unpopulated cells in the gas and in the temperature matrix, next to a
\* populated gas cell away from its standard
C2_Witness ==
    /\ pc = "done"
    /\ \E c \in DOMAIN daily_gas_pivot.cell : IsNaN(daily_gas_pivot.cell[c])
    /\ \E c \in DOMAIN daily_temp_pivot.cell : IsNaN(daily_temp_pivot.cell[c])
    /\ \E c \in DOMAIN dev_gas_daily.cell :
          ~IsNaN(dev_gas_daily.cell[c]) /\ dev_gas_daily.cell[c].num # 0

\* the populated cells of a matrix, as (year, day) keys
Populated(pv) == {<<c[2], c[1]>> : c \in {c \in DOMAIN pv.cell : ~IsNaN(pv.cell[c])}}

RowKeys(rows) == {<<rows[i].Year, rows[i].DayOfYear>> : i \in 1..Len(rows)}

\* value > n for an integer n, by cross multiplication
Exceeds(value, n) == ~IsNaN(value) /\ value.num > n * value.den

\* the keys the claim asks a row for
Anomalous ==
    {k \in Populated(dev_gas_daily) \cap Populated(temp_dev_daily) :
        /\ Exceeds(dev_gas_daily.cell[<<k[2], k[1]>>], 2)
        /\ Exceeds(temp_dev_daily.cell[<<k[2], k[1]>>], 0)}

\* C3: the anomaly result has a row for (year, day) iff both the gas deviation
\* matrix and the temperature deviation matrix have a populated cell there and
\* the gas deviation is strictly above 2.0 and the temperature deviation is
\* strictly above 0; every row carries the two deviations of its key.
C3_RowsIffBothAboveThreshold ==
    pc = "done" =>
       /\ RowKeys(high_usage_warm_days) = Anomalous
       /\ \A i \in 1..Len(high_usage_warm_days) :
             LET r == high_usage_warm_days[i]
             IN  /\ r.Gas_Dev = dev_gas_daily.cell[<<r.DayOfYear, r.Year>>]
                 /\ r.Temp_Dev = temp_dev_daily.cell[<<r.DayOfYear, r.Year>>]

\* a run with a row, with a key populated in the gas matrix alone, and with a
\* warmer day whose gas deviation is exactly the threshold
C3_Witness ==
    /\ pc = "done"
    /\ high_usage_warm_days # << >>
    /\ Populated(dev_gas_daily) \ Populated(temp_dev_daily) # {}

C3_WitnessAtThreshold ==
    /\ pc = "done"
    /\ \E k \in Populated(dev_gas_daily) \cap Populated(temp_dev_daily) :
          /\ dev_gas_daily.cell[<<k[2], k[1]>>] = R(2)
          /\ Exceeds(temp_dev_daily.cell[<<k[2], k[1]>>], 0)

Aggregated ==
    \/ pc \in {"test", "baseline", "temperature", "detect", "done"}
    \/ pc = "aborted" /\ error # "ValueError"

\* the records (row numbers) of a file that fall on (year, day) k
RecordsOf(df, k) ==
    {i \in 1..Len(df) : Year(df[i].Date) = k[1] /\ DayOfYear(df[i].Date) = k[2]}

KeysOf(df) == {<<Year(df[i].Date), DayOfYear(df[i].Date)>> : i \in 1..Len(df)}

RECURSIVE RecordSum(_, _, _)
\* the sum of a column over a set of records, in no particular order
RecordSum(df, col, I) ==
    IF I = {} THEN R(0)
    ELSE LET i == CHOOSE i \in I : TRUE
         IN  RAdd(df[i][col], RecordSum(df, col, I \ {i}))

SumsOk(df, daily) ==
    /\ DOMAIN daily = KeysOf(df)
    /\ \A k \in KeysOf(df) : daily[k] = RecordSum(df, "Usage", RecordsOf(df, k))

\* the records of (year, day) k whose temperature is present
WithTemp(k) == {i \in RecordsOf(merged_elec, k) : ~IsNaN(merged_elec[i].Avg_Temp_C)}

\* C5 as claimed: the aggregation combines the records of one (year, day) by
\* summation for every tracked quantity, temperature included: the cell is the
\* sum of the values of the records of the key, whatever their order.
C5_EveryQuantitySummed ==
    /\ Aggregated => SumsOk(elec_df, daily_elec) /\ SumsOk(gas_df, daily_gas)
    /\ pc \in TempComputed =>
          \A k \in KeysOf(elec_df) :
             WithTemp(k) # {} =>
                daily_temp[k] = RecordSum(merged_elec, "Avg_Temp_C", WithTemp(k))

\* C5 as amended: the aggregation combines the records of one (year, day) by
\* summation for electricity usage and gas usage, whatever the order of the
\* records; the temperature cell is the arithmetic mean of the temperatures
\* present among the electricity records of the key, absent when none is.
C5_UsageSummedTemperatureAveraged ==
    /\ Aggregated => SumsOk(elec_df, daily_elec) /\ SumsOk(gas_df, daily_gas)
    /\ pc \in TempComputed =>
          /\ DOMAIN daily_temp = KeysOf(elec_df)
          /\ \A k \in KeysOf(elec_df) :
                /\ IsNaN(daily_temp[k]) <=> WithTemp(k) = {}
                /\ WithTemp(k) # {} =>
                      IsNthPart(daily_temp[k],
                                RecordSum(merged_elec, "Avg_Temp_C", WithTemp(k)),
                                Cardinality(WithTemp(k)))

\* a finished run with two gas records on one day, their readings in falling
\* order, and two electricity records with a temperature above 0 on one day
C5_Witness ==
    /\ pc = "done"
    /\ \E i \in 1..(Len(gas_df) - 1) :
          /\ gas_df[i].Date = gas_df[i + 1].Date
          /\ RGt(gas_df[i].Usage, gas_df[i + 1].Usage)
    /\ \E k \in KeysOf(elec_df) :
          /\ Cardinality(WithTemp(k)) >= 2
          /\ \E i \in WithTemp(k) : RGt(merged_elec[i].Avg_Temp_C, R(0))

\* C6 as claimed: when the provider returns zero rows (failed request or daily
\* arrays of unequal length) and both consumption series are non-empty, the
\* run does not fail.
C6_RunSurvivesZeroTemperatureRows ==
    (fetch \in {"mismatch", "failed"} /\ elec_df # << >> /\ gas_df # << >>)
       => pc # "aborted"

\* what the code does instead: without temperature rows both correlations are
\* NaN and the assertion of line 205 stops every run that got that far
ZeroTemperatureRowsStopTheRun ==
    fetch \in {"mismatch", "failed"} =>
       /\ pc \in {"aggregate", "test", "aborted"}
       /\ pc # "aggregate" => IsNaN(correlation_elec) /\ IsNaN(correlation_gas)

Running == {"range", "fetch", "aggregate", "test"}

\* C7: if either consumption series has zero records the run aborts with an
\* error and never reaches the baseline, deviation or detection steps; no
\* baseline or anomaly output is produced for any series.
C7_EmptySeriesAborts ==
    (elec_df = << >> \/ gas_df = << >>) =>
       /\ pc \in Running \/ (pc = "aborted" /\ error # "none")
       /\ mean_elec_per_day = NoSeries /\ mean_gas_per_day = NoSeries
       /\ std_temp_day = NoSeries
       /\ dev_elec_daily = EmptyPivot /\ dev_gas_daily = EmptyPivot
       /\ temp_dev_daily = EmptyPivot
       /\ merged_dev_daily = NoFrame /\ high_usage_warm_days = NoFrame

\* the run of an electricity file with rows and a gas file without stopped by
\* the assertion on the gas file
C7_Witness ==
    /\ elec_df # << >>
    /\ gas_df = << >>
    /\ pc = "aborted"
    /\ error = "AssertionError: DataFrame is empty"

InCoverage(t) == ~IsNaT(t) /\ ~DateLt(t, min_coverage) /\ ~DateGt(t, today_date)

\* C8 as claimed: for non-empty consumption series the requested start date
\* and the requested end date both lie within [1979-01-01, today].
C8_RequestWithinCoverage ==
    (pc # "range" /\ elec_df # << >> /\ gas_df # << >>) =>
       InCoverage(start_date) /\ InCoverage(end_date)

\* what the code keeps: the start is not before 1979-01-01, the end not after
\* today, and each is the extreme date of the files unless clamped
RequestOneSided ==
    (pc # "range" /\ elec_df # << >> /\ gas_df # << >>) =>
       LET lo == PyMin(DateMin(elec_df), DateMin(gas_df))
           hi == PyMax(DateMax(elec_df), DateMax(gas_df))
       IN  /\ ~DateLt(start_date, min_coverage)
           /\ ~DateGt(end_date, today_date)
           /\ start_date \in {lo, min_coverage}
           /\ end_date \in {hi, today_date}

\* C9: a gas day can be flagged only if the electricity series has a record on
\* the same calendar date whose temperature is present.
C9_FlaggedOnlyWithElectricityRecord ==
    pc = "done" =>
       \A n \in 1..Len(high_usage_warm_days) :
          \A i \in RecordsOf(gas_df, <<high_usage_warm_days[n].Year,
                                       high_usage_warm_days[n].DayOfYear>>) :
             \E j \in 1..Len(elec_df) :
                /\ elec_df[j].Date = gas_df[i].Date
                /\ ~IsNaN(TempOf(temp_df, elec_df[j].Date))

\* a finished run with a gas record far above the standard of its day, on a
\* date for which the provider gave a temperature and the electricity file has
\* no record
C9_Witness ==
    /\ pc = "done"
    /\ \E i \in 1..Len(gas_df) :
          /\ \A j \in 1..Len(elec_df) : elec_df[j].Date # gas_df[i].Date
          /\ ~IsNaN(TempOf(temp_df, gas_df[i].Date))
          /\ Exceeds(dev_gas_daily.cell[<<DayOfYear(gas_df[i].Date), Year(gas_df[i].Date)>>], 2)

SumsToZero(dev) ==
    \A d \in dev.index :
       /\ YearSum(dev, d, PopYears(dev, d)) = R(0)
       /\ Cardinality(PopYears(dev, d)) = 1 =>
             \A y \in PopYears(dev, d) : dev.cell[<<d, y>>] = R(0)

\* C10: for every series and every day of the year the deviations of the day
\* over its populated years sum to zero; a day populated in exactly one year has
\* deviation 0, in gas usage and in temperature, and is never an anomaly row.
C10_DeviationsSumToZero ==
    /\ pc \in Computed => SumsToZero(dev_elec_daily) /\ SumsToZero(dev_gas_daily)
    /\ pc \in TempComputed => SumsToZero(temp_dev_daily)
    /\ pc = "done" =>
          \A n \in 1..Len(high_usage_warm_days) :
             /\ Cardinality(PopYears(dev_gas_daily, high_usage_warm_days[n].DayOfYear)) >= 2
             /\ Cardinality(PopYears(temp_dev_daily, high_usage_warm_days[n].DayOfYear)) >= 2

\* a finished run with a day populated in one year of three in the gas matrix
\* and in the temperature matrix, next to a day with an anomaly row
C10_Witness ==
    /\ pc = "done"
    /\ Cardinality(dev_gas_daily.columns) = 3
    /\ \E d \in dev_gas_daily.index : Cardinality(PopYears(dev_gas_daily, d)) = 1
    /\ \E d \in temp_dev_daily.index : Cardinality(PopYears(temp_dev_daily, d)) = 1
    /\ high_usage_warm_days # << >>

====
